---- MODULE Spec2Model ----
(***************************************************************************)
(* volkscv/metrics/classification/base.py: BaseMetric, the abstract base   *)
(* of the online classification metrics.                                   *)
(*                                                                         *)
(* The base class holds the validation helpers (_check_type, _check_match, *)
(* _check_pred_range, _check_pred_sum), the validation prefix of compute,  *)
(* the constructor and the callable wrapper __call__.  reset, update and   *)
(* accumulate are abstract: their bodies live in the concrete metrics,     *)
(* which are not part of this file, and are modelled here by one variant   *)
(* written from the interface contract (a running weighted sum of the      *)
(* per-batch value).                                                       *)
(*                                                                         *)
(* Two specifications:                                                     *)
(*   Spec       one metric instance and the operations a caller may run    *)
(*              on it, in any order;                                       *)
(*   SpecCheck  the four static validation helpers applied to inputs       *)
(*              drawn from bounded sets.                                   *)
(***************************************************************************)
EXTENDS Integers, Sequences, FiniteSets

VARIABLES
    self,        \* the instance: [state, acc, current]
    op,          \* the operation that ran last
    pred,        \* its pred argument (NoArg when it takes none)
    target,      \* its target argument (NoArg when it takes none)
    ret,         \* what it returned (NoValue: None, or nothing because it raised)
    raised,      \* the condition it raised (NoError when it returned)
    log,         \* the methods it invoked on the instance, in order
    updates,     \* history: update requests since the last reset
    summary      \* history: what accumulate returned since the last update/reset

vars == <<self, op, pred, target, ret, raised, log, updates, summary>>

----------------------------------------------------------------------------
(* Bounds of the model.                                                    *)

\* largest batch_size (leading dimension) of a generated array
MaxBatch == 2
\* largest total count n the accumulator is driven to
MaxCount == 2
\* accumulate calls recorded between two updates
MaxReads == 2

----------------------------------------------------------------------------
(* Floating point elements.  An element is a multiple of 1/4 (binary       *)
(* floating point adds and compares these exactly) or NaN.  Every          *)
(* comparison with NaN is False, and a sum with a NaN term is NaN.         *)

Float(q) == [nan |-> FALSE, q |-> q]
NaN == [nan |-> TRUE, q |-> 0]
Zero == Float(0)
One == Float(4)

\* a <= b on floats
Le(a, b) == ~a.nan /\ ~b.nan /\ a.q <= b.q

\* a + b on floats
Add(a, b) == IF a.nan \/ b.nan THEN NaN ELSE Float(a.q + b.q)

\* row.sum(): the sum of a one-dimensional array, 0.0 for an empty one
RECURSIVE Sum(_)
Sum(row) == IF row = <<>> THEN Zero ELSE Add(row[1], Sum(Tail(row)))

\* the elements of a two-dimensional array, which np.all ranges over
Items(rows) ==
    UNION { { rows[i][j] : j \in 1..Len(rows[i]) } : i \in 1..Len(rows) }

----------------------------------------------------------------------------
(* Arguments.  An argument is [type, data]: type is the Python type of the *)
(* object, data its content (pred: a sequence of rows, target: a sequence  *)
(* of class indices).  "ndarray" is numpy.ndarray, "matrix" a subclass of  *)
(* it (numpy.matrix), "list" a plain Python list, which has no shape.      *)

Types == {"ndarray", "matrix", "list"}
HasShape(x) == x.type # "list"

\* x.shape[0]
Dim0(x) == Len(x.data)

NoArg == [type |-> "none", data |-> <<>>]

\* -0.25, 0, 0.5, 1, 1.25 and NaN
Elements == {Float(-1), Zero, Float(2), One, Float(5), NaN}

\* the elements of the batches that only type and shape are looked at: 0.5, 1.25
ShapeElements == {Float(2), Float(5)}

\* two-dimensional contents with elements of E, of every shape (b, c) with
\* c of C categories
Matrices(E, C) ==
    UNION { [1..b -> [1..c -> E]] : b \in 0..MaxBatch, c \in C }

\* class indices, batch_size of them
Labels == UNION { [1..b -> 0..1] : b \in 0..MaxBatch + 1 }

\* the arrays the range and sum checks are applied to
ValuePreds == [type : {"ndarray"}, data : Matrices(Elements, 1..2)]
\* the pairs the type and shape checks are applied to
ShapePreds == [type : Types, data : Matrices(ShapeElements, 1..3)]
Targets == [type : Types, data : Labels]

----------------------------------------------------------------------------
(* Outcomes.  Every check is an assert: the four conditions below are      *)
(* AssertionError with the message of the failed assert.  The other        *)
(* exceptions are raised by Python itself.                                 *)

NoError == "NoError"
TypeMismatch == "TypeMismatch"        \* "Only numpy.ndarray is supported ..."
ShapeMismatch == "ShapeMismatch"      \* "pred and target don't match"
RangeViolation == "RangeViolation"    \* "Pred should stand for ... in range (0, 1)"
SumViolation == "SumViolation"        \* "Pred should stand for ... sum up to 1"
AttributeError == "AttributeError"    \* x.shape on an object without a shape
IndexError == "IndexError"            \* pred[0] on an array without rows

----------------------------------------------------------------------------
(* The static validation helpers: each returns the condition it raises.    *)

\* compares the numbers of elements (x.size) instead of the leading dimensions
_check_match_size(p, t) ==
    IF ~HasShape(p) \/ ~HasShape(t) THEN AttributeError
    ELSE LET size == IF p.data = <<>> THEN 0 ELSE Len(p.data) * Len(p.data[1])
         IN  IF size = Len(t.data) THEN NoError ELSE ShapeMismatch

_check_match(p, t) ==
    IF ~HasShape(p) \/ ~HasShape(t) THEN AttributeError
    ELSE IF Dim0(p) = Dim0(t) THEN NoError ELSE ShapeMismatch

\* isinstance(x, np.ndarray) instead of type(x) == np.ndarray
_check_type_isinstance(p, t) ==
    IF p.type \in {"ndarray", "matrix"} /\ t.type \in {"ndarray", "matrix"}
    THEN NoError ELSE TypeMismatch

_check_type(p, t) ==
    IF p.type = "ndarray" /\ t.type = "ndarray" THEN NoError ELSE TypeMismatch

\* strict comparisons: the bounds 0 and 1 rejected
_check_pred_range_strict(p) ==
    IF /\ \A x \in Items(p.data) : Le(Zero, x) /\ x # Zero
       /\ \A x \in Items(p.data) : Le(x, One) /\ x # One
    THEN NoError ELSE RangeViolation

_check_pred_range(p) ==
    IF /\ \A x \in Items(p.data) : Le(Zero, x)
       /\ \A x \in Items(p.data) : Le(x, One)
    THEN NoError ELSE RangeViolation

\* sums the last row instead of the first
_check_pred_sum_last(p) ==
    IF p.data = <<>> THEN IndexError
    ELSE IF Le(Sum(p.data[Len(p.data)]), One) THEN NoError ELSE SumViolation

_check_pred_sum(p) ==
    IF p.data = <<>> THEN IndexError
    ELSE IF Le(Sum(p.data[1]), One) THEN NoError ELSE SumViolation

----------------------------------------------------------------------------
(* The instance.  BaseMetric declares no field of its own: the fields are  *)
(* those of the concrete metric.  The variant modelled keeps the value of  *)
(* the last batch (current), a weighted sum of the values folded in and    *)
(* their total count (acc), and whether anything was folded in (state).    *)

Fresh == "Fresh"
Accumulating == "Accumulating"
\* a returned value v is <<v>>; None, or no value because of an exception, is <<>>
NoValue == <<>>
Value(v) == <<v>>

EmptyAcc == [sum |-> 0, n |-> 0]

\* the object before __init__ ran: no field is set
Blank == [state |-> "Unset", acc |-> EmptyAcc, current |-> 0]

\* what a method leaves behind: the instance, the value returned, the
\* condition raised, and the methods invoked so far
Result(s, v, e, lg) == [self |-> s, ret |-> v, raised |-> e, log |-> lg]

\* reset(): "Reset variables to default settings"
reset(s, lg) ==
    Result([state |-> Fresh, acc |-> EmptyAcc, current |-> 0],
           NoValue, NoError, Append(lg, "reset"))

\* the per-batch value the variant derives from a validated batch
batch_value(p, t) == Dim0(p)

\* compute that checks the shape before the type
compute_match_first(s, p, t, lg) ==
    LET lg1 == lg \o <<"compute", "_check_match">>
        e1  == _check_match(p, t)
        lg2 == Append(lg1, "_check_type")
        e2  == _check_type(p, t)
    IN  IF e1 # NoError THEN Result(s, NoValue, e1, lg1)
        ELSE IF e2 # NoError THEN Result(s, NoValue, e2, lg2)
        ELSE Result([s EXCEPT !.current = batch_value(p, t)],
                    Value(batch_value(p, t)), NoError, lg2)

\* compute(pred, target): _check_type, then _check_match, then the variant's
\* derivation of the per-batch value
compute(s, p, t, lg) ==
    LET lg1 == lg \o <<"compute", "_check_type">>
        e1  == _check_type(p, t)
        lg2 == Append(lg1, "_check_match")
        e2  == _check_match(p, t)
    IN  IF e1 # NoError THEN Result(s, NoValue, e1, lg1)
        ELSE IF e2 # NoError THEN Result(s, NoValue, e2, lg2)
        ELSE Result([s EXCEPT !.current = batch_value(p, t)],
                    Value(batch_value(p, t)), NoError, lg2)

\* update(n=1): "Add metric value or process value to statistic containers"
update(s, n, lg) ==
    Result([s EXCEPT !.state = Accumulating,
                     !.acc = [sum |-> s.acc.sum + n * s.current,
                              n   |-> s.acc.n + n]],
           NoValue, NoError, Append(lg, "update"))

\* accumulate that empties the accumulator once it is read
accumulate_drains(s, lg) ==
    Result([s EXCEPT !.acc = EmptyAcc], Value(s.acc), NoError, Append(lg, "accumulate"))

\* accumulate(): "Compute accumulated metric value"
accumulate(s, lg) ==
    Result(s, Value(s.acc), NoError, Append(lg, "accumulate"))

\* export(): a no-op in the base class
export(s, lg) == Result(s, NoValue, NoError, Append(lg, "export"))

\* __init__ that leaves the object as it was allocated
__init__no_reset(s) == Result(s, NoValue, NoError, <<"__init__">>)

\* __init__(): self.reset()
__init__(s) == reset(s, <<"__init__">>)

\* __call__ that runs update in a finally clause and returns None on failure
__call__finally(s, p, t) ==
    LET c == compute(s, p, t, <<"__call__">>)
        u == update(c.self, 1, c.log)
    IN  Result(u.self, c.ret, NoError, u.log)

\* __call__ that forgets update
__call__no_update(s, p, t) == compute(s, p, t, <<"__call__">>)

\* __call__(pred, target): compute, update(), return what compute returned.
\* An exception of compute leaves __call__ at once.
__call__(s, p, t) ==
    LET c == compute(s, p, t, <<"__call__">>)
        u == update(c.self, 1, c.log)
    IN  IF c.raised # NoError THEN c
        ELSE Result(u.self, c.ret, NoError, u.log)

----------------------------------------------------------------------------
(* The batches handed to an instance: every row of a pred is the same      *)
(* sample.                                                                 *)

\* a distribution (0.5, 0.5); a row out of range (1.25, -0.25); a row in
\* range that sums to 2 (1, 1)
RowSamples == { <<Float(2), Float(2)>>, <<Float(5), Float(-1)>>, <<One, One>> }

CallPreds ==
    [type : Types,
     data : { [i \in 1..b |-> row] : b \in 0..MaxBatch, row \in RowSamples }]
CallTargets ==
    [type : Types, data : { [i \in 1..b |-> 0] : b \in 0..MaxBatch + 1 }]

----------------------------------------------------------------------------
(* Specification Spec: one instance, any sequence of operations.  The      *)
(* caller runs one operation at a time: it looks at what the operation     *)
(* left behind (Return) before it starts the next one.                     *)

\* the step of an operation that left r behind
Ran(name, p, t, r) ==
    /\ op' = name
    /\ pred' = p
    /\ target' = t
    /\ self' = r.self
    /\ ret' = r.ret
    /\ raised' = r.raised
    /\ log' = r.log

Init ==
    LET r == __init__(Blank)
    IN  /\ op = "__init__"
        /\ pred = NoArg
        /\ target = NoArg
        /\ self = r.self
        /\ ret = r.ret
        /\ raised = r.raised
        /\ log = r.log
        /\ updates = 0
        /\ summary = <<>>

Reset ==
    /\ op = "idle"
    /\ Ran("reset", NoArg, NoArg, reset(self, <<>>))
    /\ updates' = 0
    /\ summary' = <<>>

Compute ==
    /\ op = "idle"
    /\ \E p \in CallPreds, t \in CallTargets :
        /\ Ran("compute", p, t, compute(self, p, t, <<>>))
        /\ UNCHANGED <<updates, summary>>

Update ==
    /\ op = "idle"
    /\ \E n \in 1..MaxCount :
        /\ self.acc.n + n <= MaxCount
        /\ Ran("update", NoArg, NoArg, update(self, n, <<>>))
        /\ updates' = updates + 1
        /\ summary' = <<>>

Accumulate ==
    /\ op = "idle"
    /\ Len(summary) < MaxReads
    /\ Ran("accumulate", NoArg, NoArg, accumulate(self, <<>>))
    /\ summary' = summary \o ret'
    /\ UNCHANGED updates

Export ==
    /\ op = "idle"
    /\ Ran("export", NoArg, NoArg, export(self, <<>>))
    /\ UNCHANGED <<updates, summary>>

Call ==
    /\ op = "idle"
    /\ \E p \in CallPreds, t \in CallTargets :
        LET r == __call__(self, p, t)
        IN  /\ r.self.acc.n <= MaxCount
            /\ Ran("__call__", p, t, r)
            /\ updates' = IF r.raised = NoError THEN updates + 1 ELSE updates
            /\ summary' = IF r.raised = NoError THEN <<>> ELSE summary

\* the caller has seen the outcome and drops the arguments and the result
Return ==
    /\ op # "idle"
    /\ op' = "idle"
    /\ pred' = NoArg
    /\ target' = NoArg
    /\ ret' = NoValue
    /\ raised' = NoError
    /\ log' = <<>>
    /\ UNCHANGED <<self, updates, summary>>

Next ==
    Reset \/ Compute \/ Update \/ Accumulate \/ Export \/ Call \/ Return

Spec == Init /\ [][Next]_vars

----------------------------------------------------------------------------
(* Specification SpecCheck: the static helpers on drawn inputs.            *)

InitCheck ==
    LET r == __init__(Blank)
    IN  /\ op = "input"
        /\ \/ pred \in ShapePreds /\ target \in Targets
           \/ pred \in ValuePreds /\ target = NoArg
        /\ self = r.self
        /\ ret = NoValue
        /\ raised = NoError
        /\ log = <<>>
        /\ updates = 0
        /\ summary = <<>>

\* the step of a static helper that raised e (NoError: it returned None)
Checked(name, e) ==
    /\ op = "input"
    /\ op' = name
    /\ raised' = e
    /\ log' = <<name>>
    /\ UNCHANGED <<self, pred, target, ret, updates, summary>>

CheckType ==
    /\ target # NoArg
    /\ Checked("_check_type", _check_type(pred, target))

CheckMatch ==
    /\ target # NoArg
    /\ Checked("_check_match", _check_match(pred, target))

CheckPredRange ==
    /\ target = NoArg
    /\ Checked("_check_pred_range", _check_pred_range(pred))

CheckPredSum ==
    /\ target = NoArg
    /\ Checked("_check_pred_sum", _check_pred_sum(pred))

NextCheck == CheckType \/ CheckMatch \/ CheckPredRange \/ CheckPredSum

SpecCheck == InitCheck /\ [][NextCheck]_vars

----------------------------------------------------------------------------
(* Vocabulary of the properties.                                           *)

\* x lies in the closed interval [0, 1]
InUnit(x) == ~x.nan /\ 0 <= x.q /\ x.q <= 4

\* x is more than 1
AboveOne(x) == ~x.nan /\ x.q > 4

\* the batch does not pass the validation of compute: a type mismatch or a
\* leading-dimension mismatch
Invalid(p, t) ==
    \/ p.type # "ndarray"
    \/ t.type # "ndarray"
    \/ Len(p.data) # Len(t.data)

\* the abstract operations among the methods an operation invoked
IsOperation(m) == m \in {"reset", "compute", "update", "accumulate", "export"}
Operations(lg) == SelectSeq(lg, IsOperation)

\* the validation helpers among them
IsHelper(m) == m \in {"_check_type", "_check_match",
                      "_check_pred_range", "_check_pred_sum"}
Helpers(lg) == SelectSeq(lg, IsHelper)

----------------------------------------------------------------------------
(* C1.  A callable invocation with a valid batch is compute(pred, target), *)
(* then update() once with n = 1, then the return of what compute          *)
(* returned: the value returned is the one a direct compute returns for    *)
(* the batch, the instance is left as compute followed by update(1) leaves *)
(* it, and the operations invoked are compute and then update, once each.  *)
C1_CallIsComputeThenUpdate ==
    [][ (op' = "__call__" /\ ~Invalid(pred', target')) =>
            LET c == compute(self, pred', target', <<>>)
                u == update(c.self, 1, <<>>)
            IN  /\ raised' = NoError
                /\ ret' = c.ret
                /\ self' = u.self
                /\ Operations(log') = <<"compute", "update">> ]_vars

\* a callable invocation with a batch of two samples took a Fresh instance
\* to Accumulating and returned the value of the batch
C1_Witness ==
    /\ op = "__call__"
    /\ raised = NoError
    /\ Len(pred.data) = 2
    /\ ret = Value(2)
    /\ updates = 1
    /\ self.state = Accumulating
    /\ self.acc = [sum |-> 2, n |-> 1]

(* C2.  A batch that fails the validation of compute aborts the call: the  *)
(* condition reaches the caller (TypeMismatch or ShapeMismatch), no value  *)
(* is returned, update is not run by a callable invocation, and the        *)
(* instance (accumulator, last value, Fresh/Accumulating) is left as it    *)
(* was.                                                                    *)
C2_FailedValidationAborts ==
    [][ (op' \in {"compute", "__call__"} /\ Invalid(pred', target')) =>
            /\ raised' \in {TypeMismatch, ShapeMismatch}
            /\ ret' = NoValue
            /\ self' = self
            /\ updates' = updates
            /\ Operations(log') = <<"compute">> ]_vars

\* a callable invocation of an accumulating instance failed on the leading
\* dimensions and left the accumulator as it was
C2_Witness ==
    /\ op = "__call__"
    /\ raised = ShapeMismatch
    /\ ret = NoValue
    /\ self.state = Accumulating
    /\ self.acc = [sum |-> 2, n |-> 1]
    /\ updates = 1

(* C3.  Lifecycle: construction invokes reset() once and leaves the        *)
(* instance Fresh; reset() leaves it Fresh; update() leaves it             *)
(* Accumulating; in every reachable state the instance is Accumulating     *)
(* exactly when an update (direct, or of a successful callable invocation) *)
(* has happened since the last reset; compute, accumulate and export do    *)
(* not change the state.                                                   *)
C3_StateInv ==
    /\ self.state \in {Fresh, Accumulating}
    /\ op = "__init__" => log = <<"__init__", "reset">> /\ self.state = Fresh
    /\ op = "reset" => self.state = Fresh
    /\ op = "update" => self.state = Accumulating
    /\ self.state = Accumulating <=> updates > 0

\* C3: the state invariant holds at construction and after every operation,
\* and compute, accumulate and export leave the state as it was
C3_Lifecycle ==
    /\ C3_StateInv
    /\ [][ /\ C3_StateInv'
           /\ op' \in {"compute", "accumulate", "export"}
                => self'.state = self.state ]_vars

\* an instance updated twice since its last reset is Accumulating, and a
\* compute that followed left it so
C3_Witness ==
    /\ op = "compute"
    /\ raised = NoError
    /\ self.state = Accumulating
    /\ updates = 2

(* C4.  accumulate() does not mutate the instance, and every accumulate()  *)
(* returns what the accumulate() calls before it returned since the last   *)
(* update or reset, whatever compute, export or failed call came between.  *)
C4_AccumulateReadOnly ==
    [][ op' = "accumulate" =>
            /\ self' = self
            /\ \A i \in 1..Len(summary) : ret' = <<summary[i]>> ]_vars

\* accumulate ran twice on an accumulator holding a batch of two samples
C4_Witness ==
    /\ op = "accumulate"
    /\ Len(summary) = 2
    /\ ret = Value([sum |-> 2, n |-> 1])
    /\ self.acc = [sum |-> 2, n |-> 1]

(* C5.  _check_type fails with TypeMismatch whenever pred or target is not *)
(* exactly numpy.ndarray, and passes when both are; nothing but the two    *)
(* types decides.                                                          *)
C5_CheckType ==
    op = "_check_type" =>
        /\ (pred.type # "ndarray" \/ target.type # "ndarray")
              => raised = TypeMismatch
        /\ (pred.type = "ndarray" /\ target.type = "ndarray")
              => raised = NoError

\* a pred of a subclass of ndarray, with a matching ndarray target, is refused
C5_Witness ==
    /\ op = "_check_type"
    /\ pred.type = "matrix"
    /\ target.type = "ndarray"
    /\ Len(pred.data) = Len(target.data)
    /\ raised = TypeMismatch

(* C6.  _check_match on two arrays fails with ShapeMismatch exactly when   *)
(* the leading dimensions differ and passes otherwise: the number of       *)
(* categories and the elements do not matter.                              *)
C6_CheckMatch ==
    (op = "_check_match" /\ HasShape(pred) /\ HasShape(target)) =>
        raised = IF Len(pred.data) # Len(target.data)
                 THEN ShapeMismatch ELSE NoError

\* pred of shape (2, 3) against target of shape (3,)
C6_Witness ==
    /\ op = "_check_match"
    /\ pred.type = "ndarray"
    /\ target.type = "ndarray"
    /\ Len(pred.data) = 2
    /\ Len(pred.data[1]) = 3
    /\ Len(target.data) = 3
    /\ raised = ShapeMismatch

(* C7.  _check_pred_range fails with RangeViolation exactly when some      *)
(* element of pred, in any row and column, is not in [0, 1]; 0 and 1 are   *)
(* accepted.                                                               *)
C7_CheckPredRange ==
    op = "_check_pred_range" =>
        LET outside == \E i \in 1..Len(pred.data) :
                           \E j \in 1..Len(pred.data[i]) :
                               ~InUnit(pred.data[i][j])
        IN  raised = IF outside THEN RangeViolation ELSE NoError

\* the bounds 0 and 1 pass in the first row; 1.25 in the last row and last
\* column fails the batch
C7_Witness ==
    /\ op = "_check_pred_range"
    /\ pred.data = << <<Zero, One>>, <<One, Float(5)>> >>
    /\ raised = RangeViolation

(* C8.  _check_pred_sum fails with SumViolation for every batch in which   *)
(* some row, at any index, sums to more than 1.                            *)
C8_AnyRowAboveOneFails ==
    (/\ op = "_check_pred_sum"
     /\ \E i \in 1..Len(pred.data) : AboveOne(Sum(pred.data[i])))
        => raised = SumViolation

(* C9 as stated.  _check_pred_sum fails with SumViolation exactly when the *)
(* first row sums to more than 1.                                          *)
C9_FailsIffFirstRowAboveOne ==
    (op = "_check_pred_sum" /\ pred.data # <<>>) =>
        (raised = SumViolation <=> AboveOne(Sum(pred.data[1])))

(* C9 as amended.  _check_pred_sum fails with SumViolation exactly when    *)
(* the sum of the first row is not at most 1, that is more than 1 or NaN,  *)
(* and passes otherwise: a first row summing to exactly 1 passes, and the  *)
(* rows after the first do not matter.                                     *)
C9_FailsIffFirstRowNotAtMostOne ==
    (op = "_check_pred_sum" /\ pred.data # <<>>) =>
        LET first == Sum(pred.data[1])
        IN  raised = IF AboveOne(first) \/ first.nan
                     THEN SumViolation ELSE NoError

\* a first row (0.5, 0.5) passes although the second row sums to 2
C9_Witness ==
    /\ op = "_check_pred_sum"
    /\ pred.data = << <<Float(2), Float(2)>>, <<One, One>> >>
    /\ raised = NoError

(* C10.  compute validates the types, then the leading dimensions, and     *)
(* nothing else: it fails with TypeMismatch when a type is wrong (also     *)
(* when the leading dimensions differ too), with ShapeMismatch when only   *)
(* the leading dimensions differ, and passes otherwise, whatever the       *)
(* elements; a callable invocation that passes runs update.                *)
C10_ComputeValidation ==
    op \in {"compute", "__call__"} =>
        /\ raised = IF pred.type # "ndarray" \/ target.type # "ndarray"
                    THEN TypeMismatch
                    ELSE IF Len(pred.data) # Len(target.data)
                         THEN ShapeMismatch ELSE NoError
        /\ Helpers(log) = IF raised = TypeMismatch
                          THEN <<"_check_type">>
                          ELSE <<"_check_type", "_check_match">>
        /\ (op = "__call__" /\ raised = NoError)
              => log = <<"__call__", "compute", "_check_type",
                         "_check_match", "update">>

\* a callable invocation accepted a batch whose rows are (1.25, -0.25) and
\* ran update
C10_Witness ==
    /\ op = "__call__"
    /\ pred.data = << <<Float(5), Float(-1)>>, <<Float(5), Float(-1)>> >>
    /\ _check_pred_range(pred) = RangeViolation
    /\ raised = NoError
    /\ ret = Value(2)
    /\ self.state = Accumulating

====
